---- MODULE Spec2Model ----
(***************************************************************************)
(* A model of ipld-eth-indexer:                                            *)
(*   - StateDiffTransformer.Transform (pkg/eth/transformer.go): one call   *)
(*     of the transform orchestrator, one action per statement that can    *)
(*     fail, with the database transaction it opens;                       *)
(*   - the eth.gaps table, the gap finder's empty-range scan               *)
(*     (migrateEmptyGapsPgStr) and the backfill dispatchers that drain it. *)
(***************************************************************************)
EXTENDS Integers, Sequences, FiniteSets, TLC

\* ------------------------------------------------------------------ bounds

\* Longest list of transactions, receipts and of each IPLD node list.
MaxLen == 1
\* Most uncles of a block.
MaxUncles == 1
\* Most state nodes of a state diff.
MaxStateNodes == 1
\* Most storage nodes under one state node.
MaxStorage == 1
\* Highest block number of the chain the gap loop works on.
MaxBlock == 4
\* Number of backfill dispatchers (the N of the worker pool).
NumDispatchers == 2
\* How many payload fetches and transforms may fail before all succeed.
MaxFails == 1
\* Most logs of a receipt.
MaxLogs == 2
\* Highest value of the starting-number flag of vulcanize_db.
MaxStart == 2
\* Most blocks one PopulateMissingBlocks run reports as populated.
MaxPopulated == 3
\* Most headers Repository.MissingHeaders returns.
MaxHeaders == 3
\* Most vat move logs FetchLogs returns for one header.
MaxVatLogs == 1

\* ------------------------------------------------------------- Transform

VARIABLES
    pc,            \* position of the Transform call
    blockNumber,   \* block.Number() of the decoded block
    nTxs,          \* len(block.Transactions())
    receipts,      \* decoded receipts: a sequence of [contract: BOOLEAN]
    ipld,          \* lengths of the lists FromBlockAndReceipts returned
    stateDiff,     \* decoded statediff.StateObject: its Nodes
    i,             \* index of the loop in progress (1-based)
    j,             \* index of the storage-node loop (1-based)
    errVar,        \* the function-scope variable err the deferred closure reads
    ret,           \* what Transform returned: [n, err], or NoRet
    panicVal,      \* the panic in flight, or Nil
    propagated,    \* the panic reached Transform's caller
    txState,       \* "none" | "open" | "committed" | "commitFailed" | "rolledback"
    txRows,        \* index rows written inside the open transaction
    txBlobs,       \* blobs written inside the open transaction
    rows,          \* committed index rows
    blobs,         \* committed blob store
    seq,           \* last surrogate id the store handed out
    headerID,      \* id returned by indexHeaderCID
    txID,          \* id returned by indexTransactionCID
    stateID,       \* id returned by indexStateCID
    trace,         \* publish and index operations performed, in order
    firstErr       \* the first error a step of Transform returned, or Nil

tvars == <<pc, blockNumber, nTxs, receipts, ipld, stateDiff, i, j,
           errVar, ret, panicVal, propagated, txState, txRows, txBlobs, rows,
           blobs, seq, headerID, txID, stateID, trace, firstErr>>

Nil == "nil"
NoRet == [n |-> -1, err |-> "noreturn"]
Undecoded == <<"undecoded">>
NoIpld == [uncle |-> 0, tx |-> 0, txTrie |-> 0, rct |-> 0, rctTrie |-> 0]

Lens == 0..MaxLen

\* The block numbers a payload may carry: the genesis block and a later one.
BlockNumbers == {0, 1}

\* The block's receipts: each either belongs to a contract creation or not.
ReceiptLists ==
    UNION {[1..n -> [contract : BOOLEAN]] : n \in Lens}

\* A statediff.StateNode: whether NodeType == Leaf, whether a leaf's NodeValue
\* decodes to an account, and how many StorageNodes it carries.
StateNodes ==
    {nd \in [leaf : BOOLEAN, acctOk : BOOLEAN, nStorage : 0..MaxStorage] :
        nd.leaf \/ nd.acctOk}

StateDiffs ==
    UNION {[1..n -> StateNodes] : n \in 0..MaxStateNodes}

Row(t, id, parent, idx, flag) ==
    [t |-> t, id |-> id, parent |-> parent, idx |-> idx, flag |-> flag]

Blob(k, a, b) == [k |-> k, a |-> a, b |-> b]

Op(op, what, a, b) == [op |-> op, what |-> what, a |-> a, b |-> b]

TInit ==
    /\ pc = "decodeBlock"
    /\ blockNumber = 0
    /\ nTxs = 0
    /\ receipts = <<>>
    /\ ipld = NoIpld
    /\ stateDiff = Undecoded
    /\ i = 0
    /\ j = 0
    /\ errVar = Nil
    /\ ret = NoRet
    /\ panicVal = Nil
    /\ propagated = FALSE
    /\ txState = "none"
    /\ txRows = {}
    /\ txBlobs = {}
    /\ rows = {}
    /\ blobs = {}
    /\ seq = 0
    /\ headerID = 0
    /\ txID = 0
    /\ stateID = 0
    /\ trace = <<>>
    /\ firstErr = Nil

\* A variant of ReturnEarly for a closure deferred before the first step.
ReturnEarlyDeferred(e) ==
    /\ ret' = [n |-> 0, err |-> e]
    /\ firstErr' = e
    /\ pc' = "defer"

\* `return 0, err` before the transaction is opened (lines 67, 76, 80, 85, 88,
\* 93): nothing is deferred yet, the call is over.
ReturnEarly(e) ==
    /\ ret' = [n |-> 0, err |-> e]
    /\ firstErr' = e
    /\ pc' = "done"

\* A panic before the deferred closure is registered unwinds to the caller.
PanicEarly(p) ==
    /\ panicVal' = p
    /\ propagated' = TRUE
    /\ pc' = "done"

\* A variant of ReturnErr that returns the block number with the error.
ReturnErrKeepsNumber(e) ==
    /\ ret' = [n |-> blockNumber, err |-> e]
    /\ pc' = "defer"

\* `return 0, err` after line 95: the result is set, then the deferred closure
\* runs.  In the `if err := ...; err != nil` statements (lines 113, 117, 132,
\* 136) the err returned is a new variable of the if statement: the function's
\* own err, the one the closure reads, is left as it was.
ReturnErr(e) ==
    /\ ret' = [n |-> 0, err |-> e]
    /\ pc' = "defer"

\* A panic after line 95 runs the deferred closure with the panic in flight.
PanicStep(p) ==
    /\ panicVal' = p
    /\ pc' = "defer"

payload == <<blockNumber, nTxs, receipts, ipld, stateDiff>>
loops == <<i, j>>
ids == <<headerID, txID, stateID>>
committed == <<rows, blobs>>
pending == <<txRows, txBlobs, seq, trace>>

\* ---- lines 64-94: the steps before the transaction is opened

\* Lines 65-71: rlp.DecodeBytes(payload.BlockRlp, block).
DecodeBlock ==
    /\ pc = "decodeBlock"
    /\ \/ /\ \E bn \in BlockNumbers, t \in Lens :
                /\ blockNumber' = bn
                /\ nTxs' = t
          /\ pc' = "decodeReceipts"
          /\ UNCHANGED <<ret, firstErr>>
       \/ /\ ReturnEarly("DecodeBlock")
          /\ UNCHANGED <<blockNumber, nTxs>>
    /\ UNCHANGED <<receipts, ipld, stateDiff, loops, ids, committed, pending,
                   errVar, panicVal, propagated, txState>>

\* Lines 74-77: rlp.DecodeBytes(payload.ReceiptsRlp, &receipts).
DecodeReceipts ==
    /\ pc = "decodeReceipts"
    /\ \/ /\ \E r \in ReceiptLists : receipts' = r
          /\ pc' = "deriveFields"
          /\ UNCHANGED <<ret, firstErr>>
       \/ /\ ReturnEarly("DecodeReceipts")
          /\ UNCHANGED receipts
    /\ UNCHANGED <<blockNumber, nTxs, ipld, stateDiff, loops, ids, committed,
                   pending, errVar, panicVal, propagated, txState>>

\* Lines 79-81: receipts.DeriveFields(...).
DeriveFields ==
    /\ pc = "deriveFields"
    /\ \/ /\ pc' = "fromBlockAndReceipts"
          /\ UNCHANGED <<ret, firstErr>>
       \/ ReturnEarly("DeriveFields")
    /\ UNCHANGED <<payload, loops, ids, committed, pending, errVar, panicVal,
                   propagated, txState>>

\* Lines 83-86: ipld.FromBlockAndReceipts(block, receipts).  The function's err
\* is declared here; on success it is nil.
FromBlockAndReceipts ==
    /\ pc = "fromBlockAndReceipts"
    /\ \/ /\ \E u \in 0..MaxUncles, a \in Lens, b \in Lens, c \in Lens, d \in Lens :
                ipld' = [uncle |-> u, tx |-> a, txTrie |-> b, rct |-> c, rctTrie |-> d]
          /\ pc' = "shapeCheck"
          /\ UNCHANGED <<ret, firstErr, panicVal, propagated>>
       \/ /\ ReturnEarly("FromBlockAndReceipts")
          /\ UNCHANGED <<ipld, panicVal, propagated>>
       \/ /\ PanicEarly("FromBlockAndReceipts")
          /\ UNCHANGED <<ipld, ret, firstErr>>
    /\ UNCHANGED <<blockNumber, nTxs, receipts, stateDiff, loops, ids, committed,
                   pending, errVar, txState>>

\* Line 87: the condition under which Transform refuses the node lists.
ShapeMismatch(l) ==
    /\ l.tx # l.txTrie
    /\ l.rct # l.rctTrie
    /\ l.tx # l.rct

\* Lines 87-89.
ShapeCheck ==
    /\ pc = "shapeCheck"
    /\ IF ShapeMismatch(ipld)
          THEN ReturnEarly("ShapeMismatch")
          ELSE /\ pc' = "beginx"
               /\ UNCHANGED <<ret, firstErr>>
    /\ UNCHANGED <<payload, loops, ids, committed, pending, errVar, panicVal,
                   propagated, txState>>

\* Lines 91-104: sdt.indexer.db.Beginx(), then the closure is deferred.
Beginx ==
    /\ pc = "beginx"
    /\ \/ /\ txState' = "open"
          /\ pc' = "header.publish"
          /\ UNCHANGED <<ret, firstErr>>
       \/ /\ ReturnEarly("Beginx")
          /\ UNCHANGED txState
    /\ UNCHANGED <<payload, loops, ids, committed, pending, errVar, panicVal,
                   propagated>>

\* ---- the collaborators' writes, all enlisted in the open transaction

\* shared.PublishIPLD / shared.PublishRaw: one blob under its multihash key.
Publish(b) ==
    /\ txBlobs' = txBlobs \cup {b}
    /\ trace' = Append(trace, Op("publish", b.k, b.a, b.b))
    /\ UNCHANGED <<txRows, seq>>

\* indexer.indexXCID: one row, whose new surrogate id is returned.
Index(t, parent, idx, flag) ==
    /\ seq' = seq + 1
    /\ txRows' = txRows \cup {Row(t, seq + 1, parent, idx, flag)}
    /\ trace' = Append(trace, Op("index", t, idx, parent))
    /\ UNCHANGED txBlobs

\* A call inside processUncles, processReceiptsAndTxs, the state-diff decode or
\* processStateAndStorage fails: its error is returned through an
\* `if err := ...` statement (lines 113-138), or it panics.
CallFails(e) ==
    /\ \/ /\ firstErr' = e
          /\ ReturnErr(e)
          /\ UNCHANGED panicVal
       \/ /\ PanicStep(e)
          /\ UNCHANGED <<ret, firstErr>>
    /\ UNCHANGED <<payload, loops, ids, committed, pending, errVar, propagated,
                   txState>>

\* An index expression args.xs[i] with i past the end of xs: a run-time panic.
IndexOutOfRange(e) ==
    /\ PanicStep(e)
    /\ UNCHANGED <<ret, firstErr, payload, loops, ids, committed, pending,
                   errVar, propagated, txState>>

\* ---- lines 106-111 and 145-166: processHeader.  Line 108 assigns the
\* function's own err, so a failure here is the one the closure sees.
HeaderFails(e) ==
    /\ \/ /\ firstErr' = e
          /\ errVar' = e
          /\ ReturnErr(e)
          /\ UNCHANGED panicVal
       \/ /\ PanicStep(e)
          /\ UNCHANGED <<ret, firstErr, errVar>>
    /\ UNCHANGED <<payload, loops, ids, committed, pending, propagated, txState>>

HeaderPublish ==
    /\ pc = "header.publish"
    /\ \/ /\ Publish(Blob("header", 0, 0))
          /\ pc' = "header.index"
          /\ UNCHANGED <<payload, loops, ids, committed, errVar, ret, panicVal,
                         propagated, txState, firstErr>>
       \/ HeaderFails("PublishHeader")

HeaderIndex ==
    /\ pc = "header.index"
    /\ \/ /\ Index("header", 0, 0, FALSE)
          /\ headerID' = seq + 1
          /\ errVar' = Nil
          /\ i' = 1
          /\ pc' = "uncle.publish"
          /\ UNCHANGED <<payload, j, txID, stateID, committed, ret, panicVal,
                         propagated, txState, firstErr>>
       \/ HeaderFails("IndexHeader")

\* ---- lines 113-115 and 168-187: processUncles
UnclePublish ==
    /\ pc = "uncle.publish"
    /\ \/ /\ i > ipld.uncle
          /\ i' = 1
          /\ pc' = "rt.sender"
          /\ UNCHANGED <<payload, j, ids, committed, pending, errVar, ret,
                         panicVal, propagated, txState, firstErr>>
       \/ /\ i <= ipld.uncle
          /\ \/ /\ Publish(Blob("uncle", i, 0))
                /\ pc' = "uncle.index"
                /\ UNCHANGED <<payload, loops, ids, committed, errVar, ret,
                               panicVal, propagated, txState, firstErr>>
             \/ CallFails("PublishUncle")

UncleIndex ==
    /\ pc = "uncle.index"
    /\ \/ /\ Index("uncle", headerID, i, FALSE)
          /\ i' = i + 1
          /\ pc' = "uncle.publish"
          /\ UNCHANGED <<payload, j, ids, committed, errVar, ret, panicVal,
                         propagated, txState, firstErr>>
       \/ CallFails("IndexUncle")

\* ---- lines 117-128 and 202-292: processReceiptsAndTxs, one iteration per
\* receipt.  Each action is one call; a call returns, fails or panics.

\* Lines 205-211: the loop head, trx := args.txs[i], types.Sender(signer, trx).
RtSender ==
    /\ pc = "rt.sender"
    /\ \/ /\ i > Len(receipts)
          /\ pc' = "decodeState"
          /\ UNCHANGED <<payload, loops, ids, committed, pending, errVar, ret,
                         panicVal, propagated, txState, firstErr>>
       \/ /\ i <= Len(receipts)
          /\ i > nTxs
          /\ IndexOutOfRange("args.txs[i]")
       \/ /\ i <= Len(receipts)
          /\ i <= nTxs
          /\ \/ /\ pc' = "rt.pubTxTrie"
                /\ UNCHANGED <<payload, loops, ids, committed, pending, errVar,
                               ret, panicVal, propagated, txState, firstErr>>
             \/ CallFails("Sender")

\* Lines 215-217: shared.PublishIPLD(tx, args.txTrieNodes[i]).
RtPublishTxTrie ==
    /\ pc = "rt.pubTxTrie"
    /\ \/ /\ i > ipld.txTrie
          /\ IndexOutOfRange("args.txTrieNodes[i]")
       \/ /\ i <= ipld.txTrie
          /\ \/ /\ Publish(Blob("txTrie", i, 0))
                /\ pc' = "rt.pubRctTrie"
                /\ UNCHANGED <<payload, loops, ids, committed, errVar, ret,
                               panicVal, propagated, txState, firstErr>>
             \/ CallFails("PublishTxTrie")

\* Lines 218-220: shared.PublishIPLD(tx, args.rctTrieNodes[i]).
RtPublishRctTrie ==
    /\ pc = "rt.pubRctTrie"
    /\ \/ /\ i > ipld.rctTrie
          /\ IndexOutOfRange("args.rctTrieNodes[i]")
       \/ /\ i <= ipld.rctTrie
          /\ \/ /\ Publish(Blob("rctTrie", i, 0))
                /\ pc' = "rt.pubTx"
                /\ UNCHANGED <<payload, loops, ids, committed, errVar, ret,
                               panicVal, propagated, txState, firstErr>>
             \/ CallFails("PublishRctTrie")

\* Lines 222-225: txNode, rctNode := args.txNodes[i], args.rctNodes[i], then
\* shared.PublishIPLD(tx, txNode).
RtPublishTx ==
    /\ pc = "rt.pubTx"
    /\ \/ /\ (i > ipld.tx \/ i > ipld.rct)
          /\ IndexOutOfRange("args.txNodes[i], args.rctNodes[i]")
       \/ /\ i <= ipld.tx
          /\ i <= ipld.rct
          /\ \/ /\ Publish(Blob("tx", i, 0))
                /\ pc' = "rt.pubRct"
                /\ UNCHANGED <<payload, loops, ids, committed, errVar, ret,
                               panicVal, propagated, txState, firstErr>>
             \/ CallFails("PublishTx")

\* Lines 226-228: shared.PublishIPLD(tx, rctNode).
RtPublishRct ==
    /\ pc = "rt.pubRct"
    /\ \/ /\ Publish(Blob("rct", i, 0))
          /\ pc' = "rt.pubCode"
          /\ UNCHANGED <<payload, loops, ids, committed, errVar, ret, panicVal,
                         propagated, txState, firstErr>>
       \/ CallFails("PublishRct")

\* A variant of Deployment that is set for every receipt.
DeploymentAlways(receipt) == TRUE

\* Line 246-250: deployment is set exactly when the receipt's contract address
\* is not the zero address.
Deployment(receipt) == receipt.contract

\* Lines 246-259: for a contract creation, shared.PublishRaw(tx, ..., trx.Data()).
RtPublishCode ==
    /\ pc = "rt.pubCode"
    /\ \/ /\ ~Deployment(receipts[i])
          /\ pc' = "rt.indexTx"
          /\ UNCHANGED <<payload, loops, ids, committed, pending, errVar, ret,
                         panicVal, propagated, txState, firstErr>>
       \/ /\ Deployment(receipts[i])
          /\ \/ /\ Publish(Blob("code", i, 0))
                /\ pc' = "rt.indexTx"
                /\ UNCHANGED <<payload, loops, ids, committed, errVar, ret,
                               panicVal, propagated, txState, firstErr>>
             \/ CallFails("PublishCode")

\* Lines 261-274: indexTransactionCID(tx, txModel, args.headerID).
RtIndexTx ==
    /\ pc = "rt.indexTx"
    /\ \/ /\ Index("tx", headerID, i - 1, Deployment(receipts[i]))
          /\ txID' = seq + 1
          /\ pc' = "rt.indexRct"
          /\ UNCHANGED <<payload, loops, headerID, stateID, committed, errVar,
                         ret, panicVal, propagated, txState, firstErr>>
       \/ CallFails("IndexTx")

\* A variant of RtIndexRct that passes args.headerID where txID belongs.
RtIndexRctHeaderParent ==
    /\ pc = "rt.indexRct"
    /\ \/ /\ Index("rct", headerID, i - 1, receipts[i].contract)
          /\ i' = i + 1
          /\ pc' = "rt.sender"
          /\ UNCHANGED <<payload, j, ids, committed, errVar, ret, panicVal,
                         propagated, txState, firstErr>>
       \/ CallFails("IndexRct")

\* Lines 276-289: indexReceiptCID(tx, rctModel, txID).
RtIndexRct ==
    /\ pc = "rt.indexRct"
    /\ \/ /\ Index("rct", txID, i - 1, receipts[i].contract)
          /\ i' = i + 1
          /\ pc' = "rt.sender"
          /\ UNCHANGED <<payload, j, ids, committed, errVar, ret, panicVal,
                         propagated, txState, firstErr>>
       \/ CallFails("IndexRct")

\* ---- lines 131-134: rlp.DecodeBytes(payload.StateObjectRlp, stateDiff)
DecodeState ==
    /\ pc = "decodeState"
    /\ \/ /\ \E sd \in StateDiffs : stateDiff' = sd
          /\ i' = 1
          /\ pc' = "st.publish"
          /\ UNCHANGED <<blockNumber, nTxs, receipts, ipld, j, ids, committed,
                         pending, errVar, ret, panicVal, propagated, txState,
                         firstErr>>
       \/ /\ firstErr' = "DecodeState"
          /\ ReturnErr("DecodeState")
          /\ UNCHANGED <<payload, loops, ids, committed, pending, errVar,
                         panicVal, propagated, txState>>

\* ---- lines 136-138 and 295-358: processStateAndStorage

\* A variant of StPublish that goes on to the insert without publishing.
StPublishSkipped ==
    /\ pc = "st.publish"
    /\ \/ /\ i > Len(stateDiff)
          /\ pc' = "return"
          /\ UNCHANGED <<payload, loops, ids, committed, pending, errVar, ret,
                         panicVal, propagated, txState, firstErr>>
       \/ /\ i <= Len(stateDiff)
          /\ \/ /\ pc' = "st.index"
                /\ UNCHANGED <<payload, loops, ids, committed, pending, errVar,
                               ret, panicVal, propagated, txState, firstErr>>
             \/ CallFails("PublishState")

\* Lines 296-301: the loop head and shared.PublishRaw(tx, MEthStateTrie, ...).
StPublish ==
    /\ pc = "st.publish"
    /\ \/ /\ i > Len(stateDiff)
          /\ pc' = "return"
          /\ UNCHANGED <<payload, loops, ids, committed, pending, errVar, ret,
                         panicVal, propagated, txState, firstErr>>
       \/ /\ i <= Len(stateDiff)
          /\ \/ /\ Publish(Blob("state", i, 0))
                /\ pc' = "st.index"
                /\ UNCHANGED <<payload, loops, ids, committed, errVar, ret,
                               panicVal, propagated, txState, firstErr>>
             \/ CallFails("PublishState")

\* Lines 303-314: indexStateCID(tx, stateModel, headerID).
StIndex ==
    /\ pc = "st.index"
    /\ \/ /\ Index("state", headerID, i, stateDiff[i].leaf)
          /\ stateID' = seq + 1
          /\ pc' = "st.account"
          /\ UNCHANGED <<payload, loops, headerID, txID, committed, errVar, ret,
                         panicVal, propagated, txState, firstErr>>
       \/ CallFails("IndexState")

\* Lines 316-337: for a leaf, the account is decoded from NodeValue and
\* indexStateAccount(tx, accountModel, stateID) is called.
StAccount ==
    /\ pc = "st.account"
    /\ \/ /\ ~stateDiff[i].leaf
          /\ j' = 1
          /\ pc' = "sg.publish"
          /\ UNCHANGED <<payload, i, ids, committed, pending, errVar, ret,
                         panicVal, propagated, txState, firstErr>>
       \/ /\ stateDiff[i].leaf
          /\ ~stateDiff[i].acctOk
          /\ CallFails("DecodeAccount")
       \/ /\ stateDiff[i].leaf
          /\ stateDiff[i].acctOk
          /\ \/ /\ Index("account", stateID, i, FALSE)
                /\ j' = 1
                /\ pc' = "sg.publish"
                /\ UNCHANGED <<payload, i, ids, committed, errVar, ret,
                               panicVal, propagated, txState, firstErr>>
             \/ CallFails("IndexAccount")

\* Lines 339-343: the storage loop head and shared.PublishRaw(tx, MEthStorageTrie, ...).
SgPublish ==
    /\ pc = "sg.publish"
    /\ \/ /\ j > stateDiff[i].nStorage
          /\ i' = i + 1
          /\ pc' = "st.publish"
          /\ UNCHANGED <<payload, j, ids, committed, pending, errVar, ret,
                         panicVal, propagated, txState, firstErr>>
       \/ /\ j <= stateDiff[i].nStorage
          /\ \/ /\ Publish(Blob("storage", i, j))
                /\ pc' = "sg.index"
                /\ UNCHANGED <<payload, loops, ids, committed, errVar, ret,
                               panicVal, propagated, txState, firstErr>>
             \/ CallFails("PublishStorage")

\* Lines 344-354: indexStorageCID(tx, storageModel, stateID).
SgIndex ==
    /\ pc = "sg.index"
    /\ \/ /\ Index("storage", stateID, j, FALSE)
          /\ j' = j + 1
          /\ pc' = "sg.publish"
          /\ UNCHANGED <<payload, i, ids, committed, errVar, ret, panicVal,
                         propagated, txState, firstErr>>
       \/ CallFails("IndexStorage")

\* ---- line 140: return block.Number().Int64(), err.  The results are
\* unnamed: the value of err is copied into the result here, before the
\* deferred closure runs.
Return ==
    /\ pc = "return"
    /\ ret' = [n |-> blockNumber, err |-> errVar]
    /\ pc' = "defer"
    /\ UNCHANGED <<payload, loops, ids, committed, pending, errVar, panicVal,
                   propagated, txState, firstErr>>

\* ---- lines 95-104: the deferred closure

\* A variant of DeferBranch without the recover() branch.
DeferBranchNoRecover(p, e) ==
    IF e # Nil THEN "rollback" ELSE "commit"

\* Which branch of the closure runs, from recover()'s value and the function's err.
DeferBranch(p, e) ==
    IF p # Nil THEN "recover"
    ELSE IF e # Nil THEN "rollback"
    ELSE "commit"

\* shared.Rollback(tx): the transaction's writes are discarded.
Rollback ==
    /\ txState' = "rolledback"
    /\ txRows' = {}
    /\ txBlobs' = {}
    /\ UNCHANGED <<rows, blobs>>

\* Lines 96-98: recover() returned the panic: roll back, then panic(p).
DeferRecover ==
    /\ pc = "defer"
    /\ DeferBranch(panicVal, errVar) = "recover"
    /\ Rollback
    /\ propagated' = TRUE
    /\ pc' = "done"
    /\ UNCHANGED <<payload, loops, ids, seq, trace, errVar, ret, panicVal,
                   firstErr>>

\* Lines 99-100: the function's err is not nil: roll back.
DeferRollback ==
    /\ pc = "defer"
    /\ DeferBranch(panicVal, errVar) = "rollback"
    /\ Rollback
    /\ pc' = "done"
    /\ UNCHANGED <<payload, loops, ids, seq, trace, errVar, ret, panicVal,
                   propagated, firstErr>>

\* Lines 101-102: err = tx.Commit().  The assignment is to the function's
\* variable; the results of the return statement are already set.
DeferCommit ==
    /\ pc = "defer"
    /\ DeferBranch(panicVal, errVar) = "commit"
    /\ \/ /\ txState' = "committed"
          /\ rows' = rows \cup txRows
          /\ blobs' = blobs \cup txBlobs
          /\ UNCHANGED errVar
       \/ /\ txState' = "commitFailed"
          /\ errVar' = "Commit"
          /\ UNCHANGED <<rows, blobs>>
    /\ txRows' = {}
    /\ txBlobs' = {}
    /\ pc' = "done"
    /\ UNCHANGED <<payload, loops, ids, seq, trace, ret, panicVal, propagated,
                   firstErr>>

\* ------------------------------------------------------- the gap loop

VARIABLES
    headers,       \* block numbers with a row in eth.header_cids
    gaps,          \* rows of eth.gaps
    gapSeq,        \* last value of the serial behind eth.gaps.id
    disp,          \* each dispatcher: what it holds and how far it got
    fails,         \* failures still to come
    lastEnd,       \* how the last reservation ended: "released" | "deleted"
    missing0       \* the block numbers missing between indexed headers at the start

gvars == <<headers, gaps, gapSeq, disp, fails, lastEnd, missing0>>

Blocks == 0..MaxBlock

Dispatchers == 1..NumDispatchers

\* A variant of NewGapRow whose checked_out column defaults to TRUE.
NewGapRowCheckedOut(id, start, stop) ==
    [id |-> id, start |-> start, stop |-> stop, validation |-> FALSE,
     checked_out |-> TRUE]

\* CREATE TABLE eth.gaps (00013_create_eth_gaps_table.sql): a new row's
\* validation and checked_out columns default to FALSE.
NewGapRow(id, start, stop) ==
    [id |-> id, start |-> start, stop |-> stop, validation |-> FALSE,
     checked_out |-> FALSE]

\* The SELECT of migrateEmptyGapsPgStr: for every header h with no header at
\* h + 1 (r.block_number IS NULL) and some header above it (fr.block_number
\* IS NOT NULL), grouped by h: (h + 1, min(fr.block_number) - 1).
Min(S) == CHOOSE x \in S : \A y \in S : x <= y

\* A variant of EmptyRanges that leaves out the ranges of a single block.
EmptyRangesLongOnly(H) ==
    {<<h + 1, Min({f \in H : h < f}) - 1>> :
        h \in {x \in H : (x + 1) \notin H /\ (x + 2) \notin H
                            /\ {f \in H : x < f} # {}}}

\* A variant of EmptyRanges without the test r.block_number IS NULL.
EmptyRangesNoNullTest(H) ==
    {<<h + 1, Min({f \in H : h < f}) - 1>> :
        h \in {x \in H : {f \in H : x < f} # {}}}

EmptyRanges(H) ==
    {<<h + 1, Min({f \in H : h < f}) - 1>> :
        h \in {x \in H : (x + 1) \notin H /\ {f \in H : x < f} # {}}}

\* A variant of Conflicts for a table without the UNIQUE(start, stop) key.
ConflictsNever(G, rg) == FALSE

\* UNIQUE(start, stop) with ON CONFLICT (start, stop) DO NOTHING: a selected
\* range is inserted unless a row with the same start and stop exists.
Conflicts(G, rg) ==
    \E g \in G : g.start = rg[1] /\ g.stop = rg[2]

\* The rows of a set of ranges in ascending order of start.
RECURSIVE InsertRanges(_, _, _)
InsertRanges(G, id, ranges) ==
    IF ranges = {} THEN [rows |-> G, seq |-> id]
    ELSE LET rg == CHOOSE x \in ranges : \A y \in ranges : x[1] <= y[1]
         IN  IF Conflicts(G, rg)
                THEN InsertRanges(G, id, ranges \ {rg})
                ELSE InsertRanges(G \cup {NewGapRow(id + 1, rg[1], rg[2])},
                                  id + 1, ranges \ {rg})

\* migrateEmptyGapsPgStr as one statement: INSERT INTO eth.gaps ... SELECT ...
ScanInsert(H, G, id) == InsertRanges(G, id, EmptyRanges(H))

\* GapFinder.FindGaps: the empty-range scan.
FindGaps ==
    /\ LET res == ScanInsert(headers, gaps, gapSeq)
       IN  /\ gaps' = res.rows
           /\ gapSeq' = res.seq
    /\ UNCHANGED <<headers, disp, fails, lastEnd, missing0>>

Max(S) == CHOOSE x \in S : \A y \in S : y <= x

\* The live-tail ingester follows the head of the chain: a Transform of the
\* payload of the block after the highest indexed one committed its header row.
IngestHeader(b) ==
    /\ headers # {}
    /\ b = Max(headers) + 1
    /\ headers' = headers \cup {b}
    /\ UNCHANGED <<gaps, gapSeq, disp, fails, lastEnd, missing0>>

\* A dispatcher between reservations.
Idle == [st |-> "idle", gap |-> 0, start |-> 0, stop |-> 0, next |-> 0, ok |-> {}]

\* The reservation predicate: a row is available when checked_out = false.
Available(g) == ~g.checked_out

\* Reservation: one statement selects an available row, sets checked_out = true
\* and returns the row.
Reserve(d) ==
    /\ disp[d].st = "idle"
    /\ \E g \in gaps :
          /\ Available(g)
          /\ gaps' = (gaps \ {g}) \cup {[g EXCEPT !.checked_out = TRUE]}
          /\ disp' = [disp EXCEPT ![d] =
                        [st |-> "work", gap |-> g.id, start |-> g.start,
                         stop |-> g.stop, next |-> g.start, ok |-> {}]]
    /\ UNCHANGED <<headers, gapSeq, fails, lastEnd, missing0>>

\* No row is available: the dispatcher sleeps and retries.
Retry(d) ==
    /\ disp[d].st = "idle"
    /\ ~\E g \in gaps : Available(g)
    /\ UNCHANGED gvars

\* What one Transform call (transformer.go, lines 63-141) shows its caller and
\* leaves in the header index: it returns an error or not, and the header row
\* of the block is committed or not.  All four cases occur: an error after
\* processHeader still commits, and a failed commit is not returned.
TransformResults == [err : BOOLEAN, header : BOOLEAN]

\* A variant of ReleaseRow that drops the row.
ReleaseRowDeletes(G, id) == {g \in G : g.id # id}

\* Release of a reservation: checked_out = false, the row stays.
ReleaseRow(G, id) ==
    {IF g.id = id THEN [g EXCEPT !.checked_out = FALSE] ELSE g : g \in G}

\* The payload of the next block of the range cannot be fetched
\* (NodeUnavailable): the reservation is released.
FetchFails(d) ==
    /\ disp[d].st = "work"
    /\ disp[d].next <= disp[d].stop
    /\ fails > 0
    /\ fails' = fails - 1
    /\ gaps' = ReleaseRow(gaps, disp[d].gap)
    /\ disp' = [disp EXCEPT ![d] = Idle]
    /\ lastEnd' = "released"
    /\ UNCHANGED <<headers, gapSeq, missing0>>

\* The next block of the range is fetched and fed to the orchestrator.  On an
\* error the reservation is released; otherwise the dispatcher moves on.
TransformBlock(d) ==
    /\ disp[d].st = "work"
    /\ disp[d].next <= disp[d].stop
    /\ \E r \in TransformResults :
          /\ IF r.err \/ ~r.header
                THEN fails > 0 /\ fails' = fails - 1
                ELSE fails' = fails
          /\ headers' = IF r.header THEN headers \cup {disp[d].next} ELSE headers
          /\ IF r.err
                THEN /\ gaps' = ReleaseRow(gaps, disp[d].gap)
                     /\ disp' = [disp EXCEPT ![d] = Idle]
                     /\ lastEnd' = "released"
                ELSE /\ gaps' = gaps
                     /\ lastEnd' = lastEnd
                     /\ disp' = [disp EXCEPT ![d].next = @ + 1,
                                             ![d].ok = @ \cup {disp[d].next}]
    /\ UNCHANGED <<gapSeq, missing0>>

\* The whole range succeeded: the dispatcher deletes the row.
DeleteGap(d) ==
    /\ disp[d].st = "work"
    /\ disp[d].next > disp[d].stop
    /\ gaps' = {g \in gaps : g.id # disp[d].gap}
    /\ disp' = [disp EXCEPT ![d] = Idle]
    /\ lastEnd' = "deleted"
    /\ UNCHANGED <<headers, gapSeq, fails, missing0>>

DispatcherStep(d) ==
    \/ Reserve(d)
    \/ Retry(d)
    \/ FetchFails(d)
    \/ TransformBlock(d)
    \/ DeleteGap(d)

\* The block numbers missing between indexed headers.
Missing(H) == {b \in Blocks : b \notin H /\ (\E x \in H : x < b) /\ (\E y \in H : b < y)}

GInit ==
    /\ headers \in SUBSET Blocks
    /\ gaps = {}
    /\ gapSeq = 0
    /\ disp = [d \in Dispatchers |-> Idle]
    /\ fails = MaxFails
    /\ lastEnd = "none"
    /\ missing0 = Missing(headers)

\* --------------------------------------------- the logs of one receipt

VARIABLES
    logs,             \* receipt.Logs
    lpc,              \* position in lines 232-286
    logIdx,           \* position of the outer loop over receipt.Logs
    topicSets,        \* topicSets, indexed from 1
    mappedContracts,  \* the keys of mappedContracts
    unvisited,        \* keys the range over mappedContracts has yet to yield
    logContracts,     \* logContracts
    rctModels         \* the receipt models built so far, one per run

lvars == <<logs, lpc, logIdx, topicSets, mappedContracts, unvisited,
           logContracts, rctModels>>

\* Line 232: topicSets := make([][]string, 4).
NumTopicSets == 4

\* A string is the sequence of its parts; this is the empty one.
EmptyString == <<>>

\* common.Hash.Hex(): "0x" followed by the digits of the hash.
Hex(hash) == <<"0x">> \o hash

\* common.Address.String(): "0x" followed by the digits of the address.
AddrString(addr) == <<"0x", addr>>

Addresses == {"X", "Y"}

\* The k-th log of a receipt, with nt topics; topic n of log k is the hash
\* <<k, n>>, so that all topics of a receipt differ.
MakeLog(k, nt, a) == [topics |-> [n \in 1..nt |-> <<k, n>>], address |-> a]

\* A log carries at most four topics (LOG0 to LOG4).
LogLists ==
    UNION {{[k \in 1..len |-> MakeLog(k, f[k].nt, f[k].a)] :
              f \in [1..len -> [nt : 0..NumTopicSets, a : Addresses]]} :
           len \in 0..MaxLogs}

\* Lines 232-233: the two collections as they are made.
NewTopicSets == [n \in 1..NumTopicSets |-> <<>>]

\* No receipt is being processed.
LIdle ==
    /\ logs = <<>>
    /\ lpc = "done"
    /\ logIdx = 1
    /\ topicSets = NewTopicSets
    /\ mappedContracts = {}
    /\ unvisited = {}
    /\ logContracts = <<>>
    /\ rctModels = <<>>

\* A receipt with any logs, at line 232 of its first run.
LInit ==
    /\ logs \in LogLists
    /\ lpc = "logs"
    /\ logIdx = 1
    /\ topicSets = NewTopicSets
    /\ mappedContracts = {}
    /\ unvisited = {}
    /\ logContracts = <<>>
    /\ rctModels = <<>>

\* Lines 235-237: for i, topic := range log.Topics
\*                   { topicSets[i] = append(topicSets[i], topic.Hex()) }.
AppendTopics(sets, topics) ==
    [n \in 1..NumTopicSets |->
        IF n <= Len(topics) THEN Append(sets[n], Hex(topics[n])) ELSE sets[n]]

\* Lines 234-239: one iteration of the loop over receipt.Logs.
ExtractLog ==
    /\ lpc = "logs"
    /\ logIdx <= Len(logs)
    /\ topicSets' = AppendTopics(topicSets, logs[logIdx].topics)
    /\ mappedContracts' = mappedContracts \cup {AddrString(logs[logIdx].address)}
    /\ logIdx' = logIdx + 1
    /\ UNCHANGED <<logs, lpc, unvisited, logContracts, rctModels>>

\* Line 241: logContracts := make([]string, 0, len(mappedContracts)), and the
\* range over the map begins.
StartRange ==
    /\ lpc = "logs"
    /\ logIdx > Len(logs)
    /\ logContracts' = <<>>
    /\ unvisited' = mappedContracts
    /\ lpc' = "range"
    /\ UNCHANGED <<logs, logIdx, topicSets, mappedContracts, rctModels>>

\* Lines 242-244: for addr := range mappedContracts.  The iteration order of
\* a Go map is unspecified: the next key is any key not yet yielded.
RangeContract ==
    /\ lpc = "range"
    /\ \E addr \in unvisited :
          /\ logContracts' = Append(logContracts, addr)
          /\ unvisited' = unvisited \ {addr}
    /\ UNCHANGED <<logs, lpc, logIdx, topicSets, mappedContracts, rctModels>>

\* Lines 276-286: the receipt model's topic and log-contract fields.
ReceiptModel(sets, contracts) ==
    [Topic0s |-> sets[1], Topic1s |-> sets[2], Topic2s |-> sets[3],
     Topic3s |-> sets[4], LogContracts |-> contracts]

\* Lines 276-286: the model is built; Transform is then run a second time on
\* the same receipt.
BuildModel ==
    /\ lpc = "range"
    /\ unvisited = {}
    /\ rctModels' = Append(rctModels, ReceiptModel(topicSets, logContracts))
    /\ IF Len(rctModels) = 0
         THEN /\ lpc' = "logs"
              /\ logIdx' = 1
              /\ topicSets' = NewTopicSets
              /\ mappedContracts' = {}
              /\ logContracts' = <<>>
         ELSE /\ lpc' = "done"
              /\ UNCHANGED <<logIdx, topicSets, mappedContracts, logContracts>>
    /\ UNCHANGED <<logs, unvisited>>

\* ------------------------------------------- the vulcanize_db main loop

VARIABLES
    mpc,                  \* position of the main goroutine
    tickPending,          \* a tick waits in ticker.C
    startingBlockNumber,  \* _startingBlockNumber
    goroutines            \* the goroutines started by `go backFillAllBlocks`

mvars == <<mpc, tickPending, startingBlockNumber, goroutines>>

\* Lines 21-25, as a goroutine: at "outer" backFillAllBlocks has been started
\* with `go` and has not yet run its own go statement; at "running" the inner
\* function is inside history.PopulateMissingBlocks; at "send" it is blocked
\* on missingBlocksPopulated <- n.
Goroutine(at, from, n) == [at |-> at, from |-> from, n |-> n]

\* The sequence s without its k-th element.
Remove(s, k) == [x \in 1..(Len(s) - 1) |-> IF x < k THEN s[x] ELSE s[x + 1]]

\* Lines 28-42: flags parsed, ticker and unbuffered channel made; main is at
\* the go statement of line 42.
MInit ==
    /\ mpc = "spawn"
    /\ tickPending = FALSE
    /\ startingBlockNumber \in 0..MaxStart
    /\ goroutines = <<>>

\* vulcanize_db with the default starting-number, not yet started.
MIdle ==
    /\ mpc = "spawn"
    /\ tickPending = FALSE
    /\ startingBlockNumber = 0
    /\ goroutines = <<>>

\* go backFillAllBlocks(blockchain, repository, missingBlocksPopulated,
\* _startingBlockNumber).
GoBackFill ==
    goroutines' = Append(goroutines, Goroutine("outer", startingBlockNumber, 0))

\* Line 42: the first backfill is started, then the loop is entered.
MainSpawn ==
    /\ mpc = "spawn"
    /\ GoBackFill
    /\ mpc' = "select"
    /\ UNCHANGED <<tickPending, startingBlockNumber>>

\* The runtime timer of time.NewTicker(pollingInterval) fires; a tick that
\* finds ticker.C full is dropped.
Tick ==
    /\ ~tickPending
    /\ tickPending' = TRUE
    /\ UNCHANGED <<mpc, startingBlockNumber, goroutines>>

\* A variant of MainTickCase that also starts a backfill.
MainTickCaseSpawns ==
    /\ mpc = "select"
    /\ tickPending
    /\ tickPending' = FALSE
    /\ GoBackFill
    /\ mpc' = "validate"
    /\ UNCHANGED startingBlockNumber

\* Lines 45-46: select takes case <-ticker.C.
MainTickCase ==
    /\ mpc = "select"
    /\ tickPending
    /\ tickPending' = FALSE
    /\ mpc' = "validate"
    /\ UNCHANGED <<startingBlockNumber, goroutines>>

\* Line 47: window := validator.ValidateBlocks().
MainValidate ==
    /\ mpc = "validate"
    /\ mpc' = "log"
    /\ UNCHANGED <<tickPending, startingBlockNumber, goroutines>>

\* Line 48: validator.Log(os.Stdout, window), then back to the select.
MainLog ==
    /\ mpc = "log"
    /\ mpc' = "select"
    /\ UNCHANGED <<tickPending, startingBlockNumber, goroutines>>

\* Lines 45 and 49: select takes case <-missingBlocksPopulated.  The channel
\* is unbuffered: the receive and goroutine k's send happen together, and the
\* goroutine is over.
MainReceive(k) ==
    /\ mpc = "select"
    /\ k \in 1..Len(goroutines)
    /\ goroutines[k].at = "send"
    /\ goroutines' = Remove(goroutines, k)
    /\ mpc' = "respawn"
    /\ UNCHANGED <<tickPending, startingBlockNumber>>

\* Line 50: go backFillAllBlocks(...), then back to the select.
MainRespawn ==
    /\ mpc = "respawn"
    /\ GoBackFill
    /\ mpc' = "select"
    /\ UNCHANGED <<tickPending, startingBlockNumber>>

\* Lines 22-24: backFillAllBlocks starts the inner function with `go` and
\* returns; the inner function calls history.PopulateMissingBlocks.
BackFillStarts(k) ==
    /\ k \in 1..Len(goroutines)
    /\ goroutines[k].at = "outer"
    /\ goroutines' = [goroutines EXCEPT ![k].at = "running"]
    /\ UNCHANGED <<mpc, tickPending, startingBlockNumber>>

\* Line 23: PopulateMissingBlocks returns the number of blocks it populated;
\* the goroutine now waits to send it.
PopulateReturns(k) ==
    /\ k \in 1..Len(goroutines)
    /\ goroutines[k].at = "running"
    /\ \E n \in 0..MaxPopulated :
          goroutines' = [goroutines EXCEPT ![k].at = "send", ![k].n = n]
    /\ UNCHANGED <<mpc, tickPending, startingBlockNumber>>

\* --------------------------------------- VatMoveTransformer.Execute

VARIABLES
    vpc,             \* position of the Execute call
    missingHeaders,  \* missingHeaders, the ids of the headers in the order returned
    hdr,             \* position of the loop over missingHeaders
    matchingLogs,    \* len(matchingLogs) for the current header
    calls,           \* the calls made on Repository, Fetcher and Converter
    vret             \* what Execute returned

vvars == <<vpc, missingHeaders, hdr, matchingLogs, calls, vret>>

NotReturned == "notreturned"

\* A call on a collaborator: the header it is about (0 for none), the number
\* of logs it returned (FetchLogs) and whether it returned a nil error.
Call(op, id, n, ok) == [op |-> op, id |-> id, n |-> n, ok |-> ok]

HeaderIds == 1..MaxHeaders

\* The lists MissingHeaders can return: distinct headers in any order.
HeaderLists ==
    UNION {{h \in [1..len -> HeaderIds] :
              \A x, y \in 1..len : x # y => h[x] # h[y]} :
           len \in 0..MaxHeaders}

\* Execute has been called.
VInit ==
    /\ vpc = "missingHeaders"
    /\ missingHeaders = <<>>
    /\ hdr = 1
    /\ matchingLogs = 0
    /\ calls = <<>>
    /\ vret = NotReturned

\* `return err` (lines 53, 61, 67, 74, 79): the failed call is recorded and
\* Execute is over.
ReturnCallErr(op, id) ==
    /\ calls' = Append(calls, Call(op, id, 0, FALSE))
    /\ vret' = op
    /\ vpc' = "done"

\* Lines 51-54: transformer.Repository.MissingHeaders(...).
MissingHeaders ==
    /\ vpc = "missingHeaders"
    /\ \/ /\ \E h \in HeaderLists : missingHeaders' = h
          /\ calls' = Append(calls, Call("MissingHeaders", 0, 0, TRUE))
          /\ vpc' = "fetchLogs"
          /\ UNCHANGED vret
       \/ /\ ReturnCallErr("MissingHeaders", 0)
          /\ UNCHANGED missingHeaders
    /\ UNCHANGED <<hdr, matchingLogs>>

\* Lines 57-62: the loop head and transformer.Fetcher.FetchLogs(...); line 82
\* when the list is exhausted.
FetchLogs ==
    /\ vpc = "fetchLogs"
    /\ \/ /\ hdr > Len(missingHeaders)
          /\ vret' = Nil
          /\ vpc' = "done"
          /\ UNCHANGED <<matchingLogs, calls>>
       \/ /\ hdr <= Len(missingHeaders)
          /\ \/ \E n \in 0..MaxVatLogs :
                   /\ matchingLogs' = n
                   /\ calls' = Append(calls, Call("FetchLogs", missingHeaders[hdr], n, TRUE))
                   /\ vpc' = IF n < 1 THEN "markHeaderChecked" ELSE "toModels"
                   /\ UNCHANGED vret
             \/ /\ ReturnCallErr("FetchLogs", missingHeaders[hdr])
                /\ UNCHANGED matchingLogs
    /\ UNCHANGED <<missingHeaders, hdr>>

\* A variant of MarkHeaderChecked without the continue.
MarkHeaderCheckedFallsThrough ==
    /\ vpc = "markHeaderChecked"
    /\ \/ /\ calls' = Append(calls, Call("MarkHeaderChecked", missingHeaders[hdr], 0, TRUE))
          /\ vpc' = "toModels"
          /\ UNCHANGED <<hdr, vret>>
       \/ /\ ReturnCallErr("MarkHeaderChecked", missingHeaders[hdr])
          /\ UNCHANGED hdr
    /\ UNCHANGED <<missingHeaders, matchingLogs>>

\* Lines 64-70: no log matched: transformer.Repository.MarkHeaderChecked(header.Id),
\* then continue.
MarkHeaderChecked ==
    /\ vpc = "markHeaderChecked"
    /\ \/ /\ calls' = Append(calls, Call("MarkHeaderChecked", missingHeaders[hdr], 0, TRUE))
          /\ hdr' = hdr + 1
          /\ vpc' = "fetchLogs"
          /\ UNCHANGED vret
       \/ /\ ReturnCallErr("MarkHeaderChecked", missingHeaders[hdr])
          /\ UNCHANGED hdr
    /\ UNCHANGED <<missingHeaders, matchingLogs>>

\* Lines 72-75: transformer.Converter.ToModels(matchingLogs).
ToModels ==
    /\ vpc = "toModels"
    /\ \/ /\ calls' = Append(calls, Call("ToModels", missingHeaders[hdr], matchingLogs, TRUE))
          /\ vpc' = "create"
          /\ UNCHANGED vret
       \/ ReturnCallErr("ToModels", missingHeaders[hdr])
    /\ UNCHANGED <<missingHeaders, hdr, matchingLogs>>

\* Lines 77-81: transformer.Repository.Create(header.Id, models), then the
\* next header.
Create ==
    /\ vpc = "create"
    /\ \/ /\ calls' = Append(calls, Call("Create", missingHeaders[hdr], matchingLogs, TRUE))
          /\ hdr' = hdr + 1
          /\ vpc' = "fetchLogs"
          /\ UNCHANGED vret
       \/ /\ ReturnCallErr("Create", missingHeaders[hdr])
          /\ UNCHANGED hdr
    /\ UNCHANGED <<missingHeaders, matchingLogs>>

\* ------------------------------------------------------- specifications

vars == <<tvars, gvars, lvars, mvars, vvars>>

\* One Transform call against an empty store.
Init ==
    /\ TInit
    /\ headers = {}
    /\ gaps = {}
    /\ gapSeq = 0
    /\ disp = [d \in Dispatchers |-> Idle]
    /\ fails = 0
    /\ lastEnd = "none"
    /\ missing0 = {}
    /\ LIdle
    /\ MIdle
    /\ VInit

Next ==
    \/ DecodeBlock /\ UNCHANGED <<gvars, lvars, mvars, vvars>>
    \/ DecodeReceipts /\ UNCHANGED <<gvars, lvars, mvars, vvars>>
    \/ DeriveFields /\ UNCHANGED <<gvars, lvars, mvars, vvars>>
    \/ FromBlockAndReceipts /\ UNCHANGED <<gvars, lvars, mvars, vvars>>
    \/ ShapeCheck /\ UNCHANGED <<gvars, lvars, mvars, vvars>>
    \/ Beginx /\ UNCHANGED <<gvars, lvars, mvars, vvars>>
    \/ HeaderPublish /\ UNCHANGED <<gvars, lvars, mvars, vvars>>
    \/ HeaderIndex /\ UNCHANGED <<gvars, lvars, mvars, vvars>>
    \/ UnclePublish /\ UNCHANGED <<gvars, lvars, mvars, vvars>>
    \/ UncleIndex /\ UNCHANGED <<gvars, lvars, mvars, vvars>>
    \/ RtSender /\ UNCHANGED <<gvars, lvars, mvars, vvars>>
    \/ RtPublishTxTrie /\ UNCHANGED <<gvars, lvars, mvars, vvars>>
    \/ RtPublishRctTrie /\ UNCHANGED <<gvars, lvars, mvars, vvars>>
    \/ RtPublishTx /\ UNCHANGED <<gvars, lvars, mvars, vvars>>
    \/ RtPublishRct /\ UNCHANGED <<gvars, lvars, mvars, vvars>>
    \/ RtPublishCode /\ UNCHANGED <<gvars, lvars, mvars, vvars>>
    \/ RtIndexTx /\ UNCHANGED <<gvars, lvars, mvars, vvars>>
    \/ RtIndexRct /\ UNCHANGED <<gvars, lvars, mvars, vvars>>
    \/ DecodeState /\ UNCHANGED <<gvars, lvars, mvars, vvars>>
    \/ StPublish /\ UNCHANGED <<gvars, lvars, mvars, vvars>>
    \/ StIndex /\ UNCHANGED <<gvars, lvars, mvars, vvars>>
    \/ StAccount /\ UNCHANGED <<gvars, lvars, mvars, vvars>>
    \/ SgPublish /\ UNCHANGED <<gvars, lvars, mvars, vvars>>
    \/ SgIndex /\ UNCHANGED <<gvars, lvars, mvars, vvars>>
    \/ Return /\ UNCHANGED <<gvars, lvars, mvars, vvars>>
    \/ DeferRecover /\ UNCHANGED <<gvars, lvars, mvars, vvars>>
    \/ DeferRollback /\ UNCHANGED <<gvars, lvars, mvars, vvars>>
    \/ DeferCommit /\ UNCHANGED <<gvars, lvars, mvars, vvars>>

Spec == Init /\ [][Next]_vars

\* The finder, the live-tail ingester and the dispatchers on one gaps table.
GapInit == TInit /\ GInit /\ LIdle /\ MIdle /\ VInit

GapNext ==
    \/ FindGaps /\ UNCHANGED <<tvars, lvars, mvars, vvars>>
    \/ \E b \in Blocks : IngestHeader(b) /\ UNCHANGED <<tvars, lvars, mvars, vvars>>
    \/ \E d \in Dispatchers : Reserve(d) /\ UNCHANGED <<tvars, lvars, mvars, vvars>>
    \/ \E d \in Dispatchers : Retry(d) /\ UNCHANGED <<tvars, lvars, mvars, vvars>>
    \/ \E d \in Dispatchers : FetchFails(d) /\ UNCHANGED <<tvars, lvars, mvars, vvars>>
    \/ \E d \in Dispatchers : TransformBlock(d) /\ UNCHANGED <<tvars, lvars, mvars, vvars>>
    \/ \E d \in Dispatchers : DeleteGap(d) /\ UNCHANGED <<tvars, lvars, mvars, vvars>>

GapSpec == GapInit /\ [][GapNext]_vars

\* The finder is a periodic task and every dispatcher loops for ever: each
\* keeps taking the steps it can take.
GapLiveSpec ==
    /\ GapInit
    /\ [][GapNext]_vars
    /\ WF_vars(FindGaps /\ UNCHANGED <<tvars, lvars, mvars, vvars>>)
    /\ \A d \in Dispatchers : WF_vars(DispatcherStep(d) /\ UNCHANGED <<tvars, lvars, mvars, vvars>>)

\* Two runs of lines 232-286 on the logs of one receipt.
TopicInit ==
    /\ TInit
    /\ LInit
    /\ headers = {}
    /\ gaps = {}
    /\ gapSeq = 0
    /\ disp = [d \in Dispatchers |-> Idle]
    /\ fails = 0
    /\ lastEnd = "none"
    /\ missing0 = {}
    /\ MIdle
    /\ VInit

TopicNext ==
    \/ ExtractLog /\ UNCHANGED <<tvars, gvars, mvars, vvars>>
    \/ StartRange /\ UNCHANGED <<tvars, gvars, mvars, vvars>>
    \/ RangeContract /\ UNCHANGED <<tvars, gvars, mvars, vvars>>
    \/ BuildModel /\ UNCHANGED <<tvars, gvars, mvars, vvars>>

TopicSpec == TopicInit /\ [][TopicNext]_vars

\* The main goroutine, the ticker and the backfill goroutines.
MainInit ==
    /\ TInit
    /\ LIdle
    /\ MInit
    /\ VInit
    /\ headers = {}
    /\ gaps = {}
    /\ gapSeq = 0
    /\ disp = [d \in Dispatchers |-> Idle]
    /\ fails = 0
    /\ lastEnd = "none"
    /\ missing0 = {}

MainNext ==
    \/ MainSpawn /\ UNCHANGED <<tvars, gvars, lvars, vvars>>
    \/ Tick /\ UNCHANGED <<tvars, gvars, lvars, vvars>>
    \/ MainTickCase /\ UNCHANGED <<tvars, gvars, lvars, vvars>>
    \/ MainValidate /\ UNCHANGED <<tvars, gvars, lvars, vvars>>
    \/ MainLog /\ UNCHANGED <<tvars, gvars, lvars, vvars>>
    \/ \E k \in 1..Len(goroutines) : MainReceive(k) /\ UNCHANGED <<tvars, gvars, lvars, vvars>>
    \/ MainRespawn /\ UNCHANGED <<tvars, gvars, lvars, vvars>>
    \/ \E k \in 1..Len(goroutines) : BackFillStarts(k) /\ UNCHANGED <<tvars, gvars, lvars, vvars>>
    \/ \E k \in 1..Len(goroutines) : PopulateReturns(k) /\ UNCHANGED <<tvars, gvars, lvars, vvars>>

\* The Go scheduler runs every runnable goroutine, the ticker keeps firing,
\* PopulateMissingBlocks and ValidateBlocks return, and a select that is
\* reached again and again with a case ready takes that case in the end (the
\* choice among ready cases is uniformly random).
MainSpec ==
    /\ MainInit
    /\ [][MainNext]_vars
    /\ WF_vars(MainSpawn /\ UNCHANGED <<tvars, gvars, lvars, vvars>>)
    /\ WF_vars(Tick /\ UNCHANGED <<tvars, gvars, lvars, vvars>>)
    /\ SF_vars(MainTickCase /\ UNCHANGED <<tvars, gvars, lvars, vvars>>)
    /\ WF_vars(MainValidate /\ UNCHANGED <<tvars, gvars, lvars, vvars>>)
    /\ WF_vars(MainLog /\ UNCHANGED <<tvars, gvars, lvars, vvars>>)
    /\ SF_vars(\E k \in 1..Len(goroutines) :
                  MainReceive(k) /\ UNCHANGED <<tvars, gvars, lvars, vvars>>)
    /\ WF_vars(MainRespawn /\ UNCHANGED <<tvars, gvars, lvars, vvars>>)
    /\ WF_vars(\E k \in 1..Len(goroutines) :
                  BackFillStarts(k) /\ UNCHANGED <<tvars, gvars, lvars, vvars>>)
    /\ WF_vars(\E k \in 1..Len(goroutines) :
                  PopulateReturns(k) /\ UNCHANGED <<tvars, gvars, lvars, vvars>>)

\* One call of VatMoveTransformer.Execute.
VatInit ==
    /\ TInit
    /\ LIdle
    /\ MIdle
    /\ VInit
    /\ headers = {}
    /\ gaps = {}
    /\ gapSeq = 0
    /\ disp = [d \in Dispatchers |-> Idle]
    /\ fails = 0
    /\ lastEnd = "none"
    /\ missing0 = {}

VatNext ==
    \/ MissingHeaders /\ UNCHANGED <<tvars, gvars, lvars, mvars>>
    \/ FetchLogs /\ UNCHANGED <<tvars, gvars, lvars, mvars>>
    \/ MarkHeaderChecked /\ UNCHANGED <<tvars, gvars, lvars, mvars>>
    \/ ToModels /\ UNCHANGED <<tvars, gvars, lvars, mvars>>
    \/ Create /\ UNCHANGED <<tvars, gvars, lvars, mvars>>

VatSpec == VatInit /\ [][VatNext]_vars

\* ------------------------------------------------------------- claims

Count(R, t) == Cardinality({r \in R : r.t = t})

RECURSIVE SumStorage(_, _)
SumStorage(sd, k) ==
    IF k = 0 THEN 0 ELSE sd[k].nStorage + SumStorage(sd, k - 1)

\* Every row the payload calls for is in the committed store.
AllRowsPresent ==
    /\ stateDiff # Undecoded
    /\ Count(rows, "header") = 1
    /\ Count(rows, "uncle") = ipld.uncle
    /\ Count(rows, "tx") = Len(receipts)
    /\ Count(rows, "rct") = Len(receipts)
    /\ Count(rows, "state") = Len(stateDiff)
    /\ Count(rows, "account") =
          Cardinality({k \in 1..Len(stateDiff) : stateDiff[k].leaf})
    /\ Count(rows, "storage") = SumStorage(stateDiff, Len(stateDiff))

\* C1: once Transform is over, whatever step failed after the transaction was
\* opened, the committed store holds all rows of the payload or none; and when
\* state_object_rlp is malformed no header, transaction or receipt row is
\* committed.
C1_Atomicity ==
    pc = "done" =>
        /\ rows = {} \/ AllRowsPresent
        /\ firstErr = "DecodeState" =>
              Count(rows, "header") + Count(rows, "tx") + Count(rows, "rct") = 0

\* C2: a nil error returned with the block number means the transaction was
\* committed, and a failed commit is the error Transform returns.
C2_CommitResultReturned ==
    pc = "done" =>
        /\ (ret # NoRet /\ ret.err = Nil) => txState = "committed"
        /\ (txState = "commitFailed" /\ firstErr = Nil) => ret.err = "Commit"

AllLengthsEqual ==
    /\ ipld.tx = ipld.txTrie
    /\ ipld.txTrie = ipld.rct
    /\ ipld.rct = ipld.rctTrie
    /\ ipld.rctTrie = Len(receipts)

\* C3: a payload whose five lengths are not all equal is rejected before any
\* transaction is opened, so a payload that reaches the publish and index steps
\* has all five equal.
C3_ShapeEquality ==
    (txState # "none" \/ pc = "beginx") => AllLengthsEqual

\* C4: after the first failing step no further publish or index operation is
\* performed, and Transform returns block number 0 with that error.
C4_ShortCircuit ==
    /\ [][firstErr # Nil => trace' = trace]_vars
    /\ [](pc = "done" /\ firstErr # Nil => ret = [n |-> 0, err |-> firstErr])

C4_Witness ==
    /\ pc = "done"
    /\ firstErr = "IndexRct"
    /\ blockNumber # 0
    /\ Len(trace) > 5
    /\ ret.n = 0

\* C5: a panic in steps 3-8 never lets the transaction commit: an open
\* transaction is rolled back, nothing of it is committed, and the panic
\* reaches the caller instead of a result.
C5_PanicRollsBack ==
    panicVal # Nil =>
        /\ txState \in {"none", "open", "rolledback"}
        /\ rows = {} /\ blobs = {}
        /\ ret = NoRet
        /\ pc = "done" => propagated /\ txState # "open" /\ txRows = {}

C5_Witness ==
    /\ pc = "done"
    /\ panicVal = "IndexState"
    /\ propagated
    /\ txState = "rolledback"
    /\ Len(trace) > 2

Holders(g) == {d \in Dispatchers : disp[d].st = "work" /\ disp[d].gap = g.id}

\* C6: a checked-out row is held by exactly one dispatcher, a row that is not
\* checked out by none, and every working dispatcher holds a checked-out row:
\* of the dispatchers competing for one available row exactly one gets it.
C6_ReservationExclusivity ==
    /\ \A g \in gaps : Cardinality(Holders(g)) = IF g.checked_out THEN 1 ELSE 0
    /\ \A d \in Dispatchers :
          disp[d].st = "work" =>
              \E g \in gaps : g.id = disp[d].gap /\ g.checked_out

C6_Witness ==
    /\ Cardinality(gaps) = 1
    /\ \E g \in gaps : g.checked_out
    /\ disp[1].st = "idle"
    /\ disp[2].st = "work"

\* C7: the ranges of distinct rows of eth.gaps never overlap.
C7_NonOverlapping ==
    \A g1 \in gaps, g2 \in gaps :
        g1.id # g2.id => (g1.stop < g2.start \/ g2.stop < g1.start)

MaximalMissing(H) ==
    {rg \in Blocks \X Blocks :
        /\ rg[1] <= rg[2]
        /\ (rg[1] - 1) \in H
        /\ (rg[2] + 1) \in H
        /\ \A b \in rg[1]..rg[2] : b \notin H}

\* C9: on an unchanged header index one run of the empty-range scan leaves each
\* maximal missing range in the table exactly once (headers 10, 11, 15, 16 on
\* an empty table give the one row (12, 14)), and a second run changes nothing.
C9_ScanIdempotent ==
    LET once == ScanInsert(headers, gaps, gapSeq)
        twice == ScanInsert(headers, once.rows, once.seq)
    IN  /\ twice = once
        /\ \A rg \in MaximalMissing(headers) :
              Cardinality({g \in once.rows : g.start = rg[1] /\ g.stop = rg[2]}) = 1
        /\ ScanInsert({10, 11, 15, 16}, {}, 0).rows = {NewGapRow(1, 12, 14)}

C9_Witness ==
    /\ Cardinality(MaximalMissing(headers)) > 1
    /\ \A rg \in MaximalMissing(headers) : Conflicts(gaps, rg)
    /\ ScanInsert(headers, gaps, gapSeq).rows = gaps

HasRow(R, t, id) == \E r \in R : r.t = t /\ r.id = id

\* Every foreign key of the store R names a row of the parent table in R.
ForeignKeysHold(R) ==
    \A r \in R :
        /\ r.t \in {"uncle", "tx", "state"} => HasRow(R, "header", r.parent)
        /\ r.t = "rct" => HasRow(R, "tx", r.parent)
        /\ r.t = "account" =>
              \E s \in R : s.t = "state" /\ s.id = r.parent /\ s.flag
        /\ r.t = "storage" => HasRow(R, "state", r.parent)

\* C11: in the committed store, and in the store as the open transaction
\* sees it, every uncle, transaction and state node row names an existing
\* header row, every receipt row an existing transaction row, every account
\* row a state node row whose type is leaf, every storage row an existing
\* state node row; and the parent identifiers held by Transform are those of
\* rows inserted by this call.
C11_ForeignKeys ==
    /\ ForeignKeysHold(rows)
    /\ ForeignKeysHold(rows \cup txRows)
    /\ (txState = "open" /\ headerID # 0) => HasRow(txRows, "header", headerID)
    /\ (txState = "open" /\ txID # 0) => HasRow(txRows, "tx", txID)
    /\ (txState = "open" /\ stateID # 0) => HasRow(txRows, "state", stateID)

\* A committed store with a row of each of the seven tables.
C11_Witness ==
    /\ pc = "done"
    /\ \A t \in {"header", "uncle", "tx", "rct", "state", "account", "storage"} :
          Count(rows, t) >= 1

\* C12: in the committed store a state node row has an account row exactly
\* when its node type is leaf.
C12_AccountIffLeaf ==
    \A s \in rows :
        s.t = "state" => (s.flag <=> \E a \in rows : a.t = "account" /\ a.parent = s.id)

\* The topic array of the receipt model m for topic position n (1 to 4).
TopicColumn(m, n) ==
    CASE n = 1 -> m.Topic0s
      [] n = 2 -> m.Topic1s
      [] n = 3 -> m.Topic2s
      [] n = 4 -> m.Topic3s

\* C13: each of the four topic arrays of a receipt model has one entry per
\* log, in log order: the log's topic at that position, or the empty string
\* when the log has no topic there.
C13_TopicAlignment ==
    \A r \in 1..Len(rctModels) : \A n \in 1..NumTopicSets :
        LET col == TopicColumn(rctModels[r], n) IN
        /\ Len(col) = Len(logs)
        /\ \A x \in 1..Len(logs) :
              col[x] = IF n <= Len(logs[x].topics)
                          THEN Hex(logs[x].topics[n]) ELSE EmptyString

\* C14: two runs of Transform on the same receipt build the same receipt
\* model, the order of the log-contract addresses included.
C14_Deterministic ==
    lpc = "done" => rctModels[1] = rctModels[2]

\* C15: once Transform is over with the transaction opened, the transaction
\* has been ended by commit or by rollback, and commit was attempted only if
\* the call did not panic and returned a nil error.
C15_ReleasedOnce ==
    (pc = "done" /\ txState # "none") =>
        /\ txState \in {"committed", "commitFailed", "rolledback"}
        /\ txState \in {"committed", "commitFailed"} =>
              (panicVal = Nil /\ ret # NoRet /\ ret.err = Nil)

\* The failures of lines 64-94.
PreTxFailures ==
    {"DecodeBlock", "DecodeReceipts", "DeriveFields", "FromBlockAndReceipts",
     "ShapeMismatch", "Beginx"}

\* C16: when a step before the transaction is opened fails, Transform is
\* over, has returned block number 0 with that error, no transaction was
\* begun, committed or rolled back, nothing was published or inserted, and
\* the blob store and the tables are as they were.
C16_PreTxFailureNoEffect ==
    firstErr \in PreTxFailures =>
        /\ pc = "done"
        /\ ret = [n |-> 0, err |-> firstErr]
        /\ txState = "none"
        /\ trace = <<>>
        /\ seq = 0
        /\ rows = {} /\ blobs = {}
        /\ txRows = {} /\ txBlobs = {}

\* Beginx itself failed.
C16_Witness == pc = "done" /\ firstErr = "Beginx" /\ ret.err = "Beginx"

IsPublish(tr, k, what) == tr[k].op = "publish" /\ tr[k].what = what

IsIndex(tr, k, t) == tr[k].op = "index" /\ tr[k].what = t

\* How many of the first k operations of tr published a blob of kind what.
NPublished(tr, what, k) == Cardinality({m \in 1..k : IsPublish(tr, m, what)})

\* How many of the first k operations of tr inserted a row of table t.
NIndexed(tr, t, k) == Cardinality({m \in 1..k : IsIndex(tr, m, t)})

\* The id of the row inserted by operation m: ids are handed out in order.
RowIdOf(tr, m) == Cardinality({n \in 1..m : tr[n].op = "index"})

\* The k-th write of tr, if it inserts a row, comes after the writes the row
\* depends on.
InOrder(tr, k) ==
    LET o == tr[k] IN
    o.op = "index" =>
        /\ \E m \in 1..(k - 1) : IsPublish(tr, m, "header")
        /\ o.what # "header" => \E m \in 1..(k - 1) : IsIndex(tr, m, "header")
        /\ o.what # "account" =>
              NPublished(tr, o.what, k) >= NIndexed(tr, o.what, k)
        /\ o.what = "tx" => o.a = NIndexed(tr, "tx", k) - 1
        /\ o.what = "rct" =>
              /\ o.a = NIndexed(tr, "rct", k) - 1
              /\ \E m \in 1..(k - 1) :
                    IsIndex(tr, m, "tx") /\ tr[m].a = o.a /\ RowIdOf(tr, m) = o.b
        /\ o.what = "account" =>
              \E m \in 1..(k - 1) :
                    IsIndex(tr, m, "state") /\ tr[m].a = o.a /\ RowIdOf(tr, m) = o.b
        /\ o.what = "storage" =>
              \E m \in 1..(k - 1) : IsIndex(tr, m, "state") /\ RowIdOf(tr, m) = o.b

NCodeBlobs(p) ==
    Cardinality({k \in 1..Len(trace) : trace[k] = Op("publish", "code", p, 0)})

\* C18: a transaction row is flagged as a deployment exactly when its
\* receipt has a contract address; exactly then the receipt row carries the
\* contract address and its hash and the transaction's input data was
\* published once as a raw blob; otherwise the receipt row carries neither
\* and no such blob was published.
C18_Deployment ==
    \A r \in rows \cup txRows :
        /\ r.t \in {"tx", "rct"} => (r.flag <=> receipts[r.idx + 1].contract)
        /\ r.t = "tx" => NCodeBlobs(r.idx + 1) = IF r.flag THEN 1 ELSE 0

\* A committed deployment.
C18_Witness ==
    /\ pc = "done"
    /\ \E r \in rows : r.t = "rct" /\ r.flag
    /\ Blob("code", 1, 0) \in blobs

\* The range a..b is not empty, lies between two headers of H and holds none.
WellFormedGap(H, a, b) ==
    /\ a <= b
    /\ (a - 1) \in H
    /\ (b + 1) \in H
    /\ \A x \in a..b : x \notin H

\* The rows of G that are not rows of F.
NewRows(F, G) == {g \in G : \A o \in F : o.id # g.id}

\* C19: every row a step adds to the gaps table is, for the headers indexed at
\* that time, a range with start <= stop, a header just below it, a header
\* just above it and no header inside; and no row starts right after a
\* header whose successor is indexed.
C19_InsertedRangesMissing ==
    [][/\ \A g \in NewRows(gaps, gaps') : WellFormedGap(headers, g.start, g.stop)
       /\ \A h \in headers : (h + 1) \in headers =>
             \A g \in NewRows(gaps, gaps') : g.start # h + 1]_vars

\* The scan has inserted a row over an index with two adjacent headers.
C19_Witness ==
    /\ \E g \in gaps : WellFormedGap(headers, g.start, g.stop)
    /\ \E h \in headers : (h + 1) \in headers

\* The goroutines that are at the position at.
At(at) == {k \in 1..Len(goroutines) : goroutines[k].at = at}

\* C20: at most one PopulateMissingBlocks run exists at any time, indeed at
\* most one backfill goroutine; a backfill is started only when none exists,
\* the previous one having completed and handed its result to the main loop;
\* every completed backfill is followed by a new PopulateMissingBlocks run;
\* and the main loop keeps coming back to block validation.
C20_SingleBackfill ==
    /\ [](Cardinality(At("running")) <= 1 /\ Len(goroutines) <= 1)
    /\ [][Len(goroutines') > Len(goroutines) =>
            (Len(goroutines) = 0 /\ mpc \in {"spawn", "respawn"})]_vars
    /\ (At("send") # {}) ~> (At("running") # {})
    /\ []<>(mpc = "validate")

\* A backfill that is running after an earlier one completed, while the
\* main goroutine validates blocks.
C20_Witness ==
    /\ mpc = "validate"
    /\ At("running") # {}
    /\ tickPending

\* The calls of cs made by one of the operations ops, in order.
CallsOf(cs, ops) == SelectSeq(cs, LAMBDA c : c.op \in ops)

\* How many calls of cs by one of the operations ops are about header id.
NCalls(cs, ops, id) ==
    Cardinality({k \in 1..Len(cs) : cs[k].op \in ops /\ cs[k].id = id})

\* C21: Execute fetches the logs of the missing headers in the order they
\* were returned; no header gets both MarkHeaderChecked and Create, and a
\* header the loop has left behind got exactly one of them, MarkHeaderChecked
\* exactly when no log matched; and when a call fails Execute is over, has
\* returned that call's error, the failed call is the last call made, and no
\* call was made about a header after the current one.
C21_ExecuteOrderAndErrors ==
    LET fetched == CallsOf(calls, {"FetchLogs"})
        done(id) == NCalls(calls, {"MarkHeaderChecked", "Create"}, id)
    IN  /\ Len(fetched) <= Len(missingHeaders)
        /\ \A k \in 1..Len(fetched) : fetched[k].id = missingHeaders[k]
        /\ \A x \in 1..Len(missingHeaders) :
              LET id == missingHeaders[x] IN
              /\ done(id) <= 1
              /\ x < hdr =>
                    /\ done(id) = 1
                    /\ NCalls(calls, {"MarkHeaderChecked"}, id) = 1
                          <=> fetched[x].n = 0
              /\ x > hdr => NCalls(calls, {"FetchLogs", "MarkHeaderChecked",
                                           "ToModels", "Create"}, id) = 0
        /\ \A k \in 1..Len(calls) : ~calls[k].ok =>
              /\ k = Len(calls)
              /\ vpc = "done"
              /\ vret = calls[k].op
        /\ vret = Nil => (hdr = Len(missingHeaders) + 1 /\ \A k \in 1..Len(calls) : calls[k].ok)

\* One header was marked as checked, the next got its models created, and
\* FetchLogs then failed for the third, which ended Execute.
C21_Witness ==
    /\ vpc = "done"
    /\ vret = "FetchLogs"
    /\ hdr = 3
    /\ \E k, m \in 1..Len(calls) :
          /\ k < m
          /\ calls[k].op = "MarkHeaderChecked"
          /\ calls[m].op = "Create"
          /\ calls[m].ok

====
